---- MODULE Spec2Model ----
(***************************************************************************)
(* Model of coral's graph builder (src/src/analyzer.rs) and diff engine    *)
(* (src/src/diff.rs).                                                      *)
(*                                                                         *)
(* Strings are sequences of tokens: a token is "." or "/" or a word that   *)
(* holds neither.  "user.v1" is <<"user", ".", "v1">>, the empty string is *)
(* <<>>.  Option<T> is a sequence of length 0 (None) or 1 (Some(x)).       *)
(* HashMap<K, V> is a function whose DOMAIN is the set of keys.            *)
(***************************************************************************)
EXTENDS Integers, Sequences, FiniteSets, TLC

VARIABLES
    corpus,               \* the descriptor files the caller can pass to analyze
    type_to_node_id,      \* Analyzer.type_to_node_id
    type_to_message_def,  \* Analyzer.type_to_message_def
    external_packages,    \* Analyzer.external_packages
    calls,                \* "new" right after Analyzer::new(), "used" after an analyze
    fds,                  \* the argument of the last analyze call
    model,                \* Some(GraphModel) the last analyze call returned
    last_fresh,           \* the last analyze call ran on a newly constructed Analyzer
    prev_model,           \* Some(result of the call before the last): set when both had
                          \* the same argument and ran on one Analyzer in a row, or each
                          \* on a newly constructed one
    pool,                 \* the nodes the graphs given to compute are made of
    base,                 \* first argument of the last DiffReport::compute call
    head,                 \* second argument of the last DiffReport::compute call
    report,               \* Some(DiffReport) the last compute call returned
    pc,                   \* position of a stepwise analyze call: "idle" before it,
                          \* "pass3" during the third pass, "done" after the return
    todo,                 \* the statements of the third pass still to run
    message_edges,        \* the local edges of the running create_message_edges
    bytes,                \* the argument of the decoder call
    decoded               \* Some(Result<FileDescriptorSet>) the decoder returned

vars == <<corpus, type_to_node_id, type_to_message_def, external_packages, calls,
          fds, model, last_fresh, prev_model, pool, base, head, report,
          pc, todo, message_edges, bytes, decoded>>

analyzerVars == <<corpus, type_to_node_id, type_to_message_def, external_packages,
                  calls, fds, model, last_fresh, prev_model>>

diffVars == <<pool, base, head, report>>

stepVars == <<pc, todo, message_edges>>

decodeVars == <<bytes, decoded>>

\* no stepwise analyze call is running
StepIdle == pc = "idle" /\ todo = <<>> /\ message_edges = <<>>

\* the decoder has not been called
DecodeIdle == bytes = <<>> /\ decoded = <<>>

----------------------------------------------------------------------------
(* Options, maps, folds *)

None == <<>>

Some(x) == <<x>>

IsSome(o) == Len(o) = 1

unwrap_or(o, d) == IF IsSome(o) THEN o[1] ELSE d

EmptyMap == [k \in {} |-> <<>>]

MapInsert(m, k, v) == [x \in (DOMAIN m) \cup {k} |-> IF x = k THEN v ELSE m[x]]

MapGet(m, k) == IF k \in DOMAIN m THEN Some(m[k]) ELSE None

RECURSIVE FoldLeft(_, _, _)
FoldLeft(Op(_, _), acc, seq) ==
    IF seq = <<>> THEN acc ELSE FoldLeft(Op, Op(acc, Head(seq)), Tail(seq))

Range(seq) == {seq[i] : i \in DOMAIN seq}

----------------------------------------------------------------------------
(* String operations on token sequences *)

starts_with(s, prefix) ==
    Len(s) >= Len(prefix) /\ SubSeq(s, 1, Len(prefix)) = prefix

RECURSIVE trim_start_matches_dot(_)
trim_start_matches_dot(s) ==
    IF s # <<>> /\ Head(s) = "." THEN trim_start_matches_dot(Tail(s)) ELSE s

\* index of the last "." of s, 0 when there is none
LastDot(s) ==
    LET dots == {i \in DOMAIN s : s[i] = "."}
    IN IF dots = {} THEN 0 ELSE CHOOSE i \in dots : \A j \in dots : j <= i

replace_dot_slash(s) == [i \in DOMAIN s |-> IF s[i] = "." THEN "/" ELSE s[i]]

----------------------------------------------------------------------------
(* Analyzer: pure helpers *)

is_external_file(file_path) ==
    starts_with(file_path, <<"google", "/">>) \/ starts_with(file_path, <<"buf", "/">>)

\* generate_node_id that joins with '/' and has no case for the empty package
generate_node_id_slash(package, name) == package \o <<"/">> \o name

generate_node_id(package, name) ==
    IF package = <<>> THEN name ELSE package \o <<".">> \o name

generate_fq_type(package, name) ==
    IF package = <<>> THEN <<".">> \o name ELSE <<".">> \o package \o <<".">> \o name

is_external_type(fq_type) ==
    LET type_without_dot == trim_start_matches_dot(fq_type)
    IN starts_with(type_without_dot, <<"google", ".">>)
       \/ starts_with(type_without_dot, <<"buf", ".">>)

\* full_type.rsplit('.').next(): what follows the last '.', None gives ""
extract_short_type(full_type) ==
    IF IsSome(full_type)
    THEN LET t == full_type[1] IN SubSeq(t, LastDot(t) + 1, Len(t))
    ELSE <<>>

label_to_string(label) ==
    IF IsSome(label) /\ label[1] = 2 THEN <<"required">>
    ELSE IF IsSome(label) /\ label[1] = 3 THEN <<"repeated">>
    ELSE <<"optional">>

TypeNames ==
    <<"double", "float", "int64", "uint64", "int32", "fixed64", "fixed32", "bool",
      "string", "group", "message", "bytes", "uint32", "enum", "sfixed32", "sfixed64",
      "sint32", "sint64">>

type_to_string(field_type, type_name) ==
    IF IsSome(type_name) /\ type_name[1] # <<>>
    THEN extract_short_type(type_name)
    ELSE IF IsSome(field_type) /\ field_type[1] \in DOMAIN TypeNames
         THEN <<TypeNames[field_type[1]]>>
         ELSE <<"unknown">>

NewNode(id, node_type, package, label, file, details) ==
    [id |-> id, node_type |-> node_type, package |-> package, label |-> label,
     file |-> file, details |-> details]

NewEdge(source, target) == [source |-> source, target |-> target]

----------------------------------------------------------------------------
(* Analyzer: operations on the resolution state                            *)
(* st = [type_to_node_id, type_to_message_def, external_packages]          *)

NewAnalyzer ==
    [type_to_node_id |-> EmptyMap, type_to_message_def |-> EmptyMap,
     external_packages |-> {}]

RECURSIVE register_nested_message(_, _, _)
register_nested_message(st, message, parent_fq) ==
    IF IsSome(message.name)
    THEN LET fq_type == parent_fq \o <<".">> \o message.name[1]
             id == trim_start_matches_dot(fq_type)
             st1 == [st EXCEPT !.type_to_node_id = MapInsert(@, fq_type, id)]
         IN FoldLeft(LAMBDA s, nested : register_nested_message(s, nested, fq_type),
                     st1, message.nested_type)
    ELSE st

register_nested_enum(st, enum_type, parent_fq) ==
    IF IsSome(enum_type.name)
    THEN LET fq_type == parent_fq \o <<".">> \o enum_type.name[1]
             id == trim_start_matches_dot(fq_type)
         IN [st EXCEPT !.type_to_node_id = MapInsert(@, fq_type, id)]
    ELSE st

register_external_type(st, message, package) ==
    IF IsSome(message.name)
    THEN LET name == message.name[1]
             id == generate_node_id(package, name)
             fq_type == generate_fq_type(package, name)
             st1 == [st EXCEPT !.type_to_node_id = MapInsert(@, fq_type, id),
                               !.external_packages = @ \cup {package}]
         IN FoldLeft(LAMBDA s, nested : register_nested_message(s, nested, fq_type),
                     st1, message.nested_type)
    ELSE st

register_external_enum(st, enum_type, package) ==
    IF IsSome(enum_type.name)
    THEN LET name == enum_type.name[1]
             id == generate_node_id(package, name)
             fq_type == generate_fq_type(package, name)
         IN [st EXCEPT !.type_to_node_id = MapInsert(@, fq_type, id),
                       !.external_packages = @ \cup {package}]
    ELSE st

FieldInfoOf(f) ==
    [name |-> unwrap_or(f.name, <<>>), number |-> unwrap_or(f.number, 0),
     type_name |-> type_to_string(f.type, f.type_name),
     label |-> label_to_string(f.label)]

\* returns [st, node]: the new resolution state and Option<Node>
create_message_node(st, message, package, file_name) ==
    IF ~IsSome(message.name) THEN [st |-> st, node |-> None]
    ELSE
    LET name == message.name[1]
        id == generate_node_id(package, name)
        fq_type == generate_fq_type(package, name)
        st1 == [st EXCEPT !.type_to_node_id = MapInsert(@, fq_type, id)]
        st2 == FoldLeft(LAMBDA s, nested : register_nested_message(s, nested, fq_type),
                        st1, message.nested_type)
        st3 == FoldLeft(LAMBDA s, nested_enum : register_nested_enum(s, nested_enum, fq_type),
                        st2, message.enum_type)
        fields == [i \in DOMAIN message.field |-> FieldInfoOf(message.field[i])]
        st4 == [st3 EXCEPT !.type_to_message_def =
                    MapInsert(@, fq_type, [name |-> name, fields |-> fields])]
    IN [st |-> st4,
        node |-> Some(NewNode(id, "Message", package, name, file_name,
                              [kind |-> "Message", fields |-> fields]))]

EnumValueOf(v) == [name |-> unwrap_or(v.name, <<>>), number |-> unwrap_or(v.number, 0)]

create_enum_node(st, enum_type, package, file_name) ==
    IF ~IsSome(enum_type.name) THEN [st |-> st, node |-> None]
    ELSE
    LET name == enum_type.name[1]
        id == generate_node_id(package, name)
        fq_type == generate_fq_type(package, name)
        values == [i \in DOMAIN enum_type.value |-> EnumValueOf(enum_type.value[i])]
    IN [st |-> [st EXCEPT !.type_to_node_id = MapInsert(@, fq_type, id)],
        node |-> Some(NewNode(id, "Enum", package, name, file_name,
                              [kind |-> "Enum", values |-> values]))]

MethodSignatureOf(m) ==
    [name |-> unwrap_or(m.name, <<>>),
     input_type |-> extract_short_type(m.input_type),
     output_type |-> extract_short_type(m.output_type)]

\* ServiceMessages without seen_types: one definition per reference
ServiceMessages_each(st, service) ==
    LET type_names == FoldLeft(LAMBDA acc, m : acc \o m.input_type \o m.output_type,
                               <<>>, service.method)
    IN FoldLeft(LAMBDA acc, type_name : acc \o MapGet(st.type_to_message_def, type_name),
                <<>>, type_names)

\* the message definitions of the methods' input and output types, first seen first
ServiceMessages(st, service) ==
    LET type_names == FoldLeft(LAMBDA acc, m : acc \o m.input_type \o m.output_type,
                               <<>>, service.method)
        step(acc, type_name) ==
            IF type_name \in acc.seen_types THEN acc
            ELSE [seen_types |-> acc.seen_types \cup {type_name},
                  messages |-> acc.messages \o MapGet(st.type_to_message_def, type_name)]
    IN FoldLeft(step, [seen_types |-> {}, messages |-> <<>>], type_names).messages

create_service_node(st, service, package, file_name) ==
    IF ~IsSome(service.name) THEN [st |-> st, node |-> None]
    ELSE
    LET name == service.name[1]
        id == generate_node_id(package, name)
        fq_type == generate_fq_type(package, name)
        st1 == [st EXCEPT !.type_to_node_id = MapInsert(@, fq_type, id)]
        methods == [i \in DOMAIN service.method |-> MethodSignatureOf(service.method[i])]
    IN [st |-> st1,
        node |-> Some(NewNode(id, "Service", package, name, file_name,
                              [kind |-> "Service", methods |-> methods,
                               messages |-> ServiceMessages(st1, service)]))]

\* create_service_edges that takes a missing service name as the empty name
create_service_edges_unnamed(st, service, package) ==
    LET source_id == generate_node_id(package, unwrap_or(service.name, <<>>))
        edge_to(type_name) ==
            IF IsSome(type_name) /\ type_name[1] \in DOMAIN st.type_to_node_id
            THEN Some(NewEdge(source_id, st.type_to_node_id[type_name[1]]))
            ELSE None
    IN FoldLeft(LAMBDA edges, m : edges \o edge_to(m.input_type) \o edge_to(m.output_type),
                <<>>, service.method)

create_service_edges(st, service, package) ==
    IF ~IsSome(service.name) THEN <<>>
    ELSE
    LET source_id == generate_node_id(package, service.name[1])
        \* Some(edge) when the type name is present and registered
        edge_to(type_name) ==
            IF IsSome(type_name) /\ type_name[1] \in DOMAIN st.type_to_node_id
            THEN Some(NewEdge(source_id, st.type_to_node_id[type_name[1]]))
            ELSE None
    IN FoldLeft(LAMBDA edges, m : edges \o edge_to(m.input_type) \o edge_to(m.output_type),
                <<>>, service.method)

\* ensure_external_node that takes the two parts of rsplitn the other way round
ensure_external_node_swapped(id, fq_type, nodes) ==
    IF \E i \in DOMAIN nodes : nodes[i].id = id THEN nodes
    ELSE
    LET type_without_dot == trim_start_matches_dot(fq_type)
        d == LastDot(type_without_dot)
        package == IF d > 0 THEN SubSeq(type_without_dot, d + 1, Len(type_without_dot))
                   ELSE type_without_dot
        label == IF d > 0 THEN SubSeq(type_without_dot, 1, d - 1) ELSE <<>>
        file == replace_dot_slash(package) \o <<".", "proto">>
    IN Append(nodes, NewNode(id, "External", package, label, file, [kind |-> "External"]))

ensure_external_node(id, fq_type, nodes) ==
    IF \E i \in DOMAIN nodes : nodes[i].id = id THEN nodes
    ELSE
    LET type_without_dot == trim_start_matches_dot(fq_type)
        d == LastDot(type_without_dot)
        label == IF d > 0 THEN SubSeq(type_without_dot, d + 1, Len(type_without_dot))
                 ELSE type_without_dot
        package == IF d > 0 THEN SubSeq(type_without_dot, 1, d - 1) ELSE <<>>
        file == replace_dot_slash(package) \o <<".", "proto">>
    IN Append(nodes, NewNode(id, "External", package, label, file, [kind |-> "External"]))

\* create_message_edges that also walks the fields of the messages nested
\* directly in the message, with the nested message's id as source
create_message_edges_nested(st, message, package, nodes) ==
    IF ~IsSome(message.name) THEN [edges |-> <<>>, nodes |-> nodes]
    ELSE
    LET source_id == generate_node_id(package, message.name[1])
        own == [i \in DOMAIN message.field |->
                   [source_id |-> source_id, field |-> message.field[i]]]
        nested == FoldLeft(LAMBDA acc, n :
                               IF ~IsSome(n.name) THEN acc
                               ELSE acc \o [i \in DOMAIN n.field |->
                                               [source_id |-> source_id \o <<".">> \o n.name[1],
                                                field |-> n.field[i]]],
                           <<>>, message.nested_type)
        step(acc, f) ==
            IF IsSome(f.field.type_name) /\ f.field.type_name[1] \in DOMAIN st.type_to_node_id
            THEN LET type_name == f.field.type_name[1]
                     target_id == st.type_to_node_id[type_name]
                 IN [edges |-> Append(acc.edges, NewEdge(f.source_id, target_id)),
                     nodes |-> IF is_external_type(type_name)
                               THEN ensure_external_node(target_id, type_name, acc.nodes)
                               ELSE acc.nodes]
            ELSE acc
    IN FoldLeft(step, [edges |-> <<>>, nodes |-> nodes], own \o nested)

\* returns [edges, nodes]: the message's edges and the node list, grown by the
\* External nodes synthesized on the way
create_message_edges(st, message, package, nodes) ==
    IF ~IsSome(message.name) THEN [edges |-> <<>>, nodes |-> nodes]
    ELSE
    LET source_id == generate_node_id(package, message.name[1])
        step(acc, field) ==
            IF IsSome(field.type_name) /\ field.type_name[1] \in DOMAIN st.type_to_node_id
            THEN LET type_name == field.type_name[1]
                     target_id == st.type_to_node_id[type_name]
                 IN [edges |-> Append(acc.edges, NewEdge(source_id, target_id)),
                     nodes |-> IF is_external_type(type_name)
                               THEN ensure_external_node(target_id, type_name, acc.nodes)
                               ELSE acc.nodes]
            ELSE acc
    IN FoldLeft(step, [edges |-> <<>>, nodes |-> nodes], message.field)

\* deduplicate_edges that filters nothing
deduplicate_edges_none(edges) == edges

deduplicate_edges(edges) ==
    FoldLeft(LAMBDA kept, e :
                 IF \E i \in DOMAIN kept :
                        kept[i].source = e.source /\ kept[i].target = e.target
                 THEN kept ELSE Append(kept, e),
             <<>>, edges)

\* group_packages over the nodes of the definitions only, without the
\* synthesized External nodes
group_packages_internal(nodes) ==
    {[id |-> p,
      node_ids |-> LET mine == SelectSeq(nodes, LAMBDA n : n.package = p
                                                          /\ n.node_type # "External")
                   IN [i \in DOMAIN mine |-> mine[i].id]]
     : p \in {nodes[i].package : i \in DOMAIN nodes}}

\* the Package of every package that has a node, as a set: the order in which
\* group_packages returns them is the iteration order of a HashMap
group_packages(nodes) ==
    {[id |-> p,
      node_ids |-> LET mine == SelectSeq(nodes, LAMBDA n : n.package = p)
                   IN [i \in DOMAIN mine |-> mine[i].id]]
     : p \in {nodes[i].package : i \in DOMAIN nodes}}

\* every sequence that lists each element of S once
Orderings(S) ==
    {s \in [1..Cardinality(S) -> S] : \A x \in S : \E i \in DOMAIN s : s[i] = x}

----------------------------------------------------------------------------
(* Analyzer::analyze: three passes over the files, then the post-pass      *)
(* acc = [st, nodes, edges]                                                *)

Pass1File(acc, file) ==
    LET file_name == unwrap_or(file.name, <<>>)
        package == unwrap_or(file.package, <<>>)
        is_external == is_external_file(file_name)
        message_step(a, message) ==
            IF is_external
            THEN [a EXCEPT !.st = register_external_type(a.st, message, package)]
            ELSE LET r == create_message_node(a.st, message, package, file_name)
                 IN [a EXCEPT !.st = r.st, !.nodes = a.nodes \o r.node]
        enum_step(a, enum_type) ==
            IF is_external
            THEN [a EXCEPT !.st = register_external_enum(a.st, enum_type, package)]
            ELSE LET r == create_enum_node(a.st, enum_type, package, file_name)
                 IN [a EXCEPT !.st = r.st, !.nodes = a.nodes \o r.node]
    IN FoldLeft(enum_step, FoldLeft(message_step, acc, file.message_type), file.enum_type)

Pass2File(acc, file) ==
    LET file_name == unwrap_or(file.name, <<>>)
        package == unwrap_or(file.package, <<>>)
        service_step(a, service) ==
            LET r == create_service_node(a.st, service, package, file_name)
            IN [a EXCEPT !.st = r.st, !.nodes = a.nodes \o r.node]
    IN FoldLeft(service_step, acc, file.service)

Pass3File(acc, file) ==
    LET file_name == unwrap_or(file.name, <<>>)
        package == unwrap_or(file.package, <<>>)
        service_step(a, service) ==
            [a EXCEPT !.edges = a.edges \o create_service_edges(a.st, service, package)]
        message_step(a, message) ==
            LET r == create_message_edges(a.st, message, package, a.nodes)
            IN [a EXCEPT !.edges = a.edges \o r.edges, !.nodes = r.nodes]
    IN IF is_external_file(file_name) THEN acc
       ELSE FoldLeft(message_step, FoldLeft(service_step, acc, file.service),
                     file.message_type)

\* analyze with the services' pass run before the definitions' pass
analyze_services_first(st, files) ==
    LET p2 == FoldLeft(Pass2File, [st |-> st, nodes |-> <<>>, edges |-> <<>>], files)
        p1 == FoldLeft(Pass1File, p2, files)
        p3 == FoldLeft(Pass3File, p1, files)
    IN [p3 EXCEPT !.edges = deduplicate_edges(p3.edges)]

\* analyze without the package grouping: [st, nodes, edges]
analyze(st, files) ==
    LET p1 == FoldLeft(Pass1File, [st |-> st, nodes |-> <<>>, edges |-> <<>>], files)
        p2 == FoldLeft(Pass2File, p1, files)
        p3 == FoldLeft(Pass3File, p2, files)
    IN [p3 EXCEPT !.edges = deduplicate_edges(p3.edges)]

----------------------------------------------------------------------------
(* Descriptor inputs (prost_types): constructors and the corpora           *)

\* i32 codes of prost_types::field_descriptor_proto::Type and Label
TYPE_INT64 == 3

TYPE_STRING == 9

TYPE_MESSAGE == 11

TYPE_ENUM == 14

LABEL_REPEATED == 3

ScalarField(name, number, type) ==
    [name |-> Some(<<name>>), number |-> Some(number), type |-> Some(type),
     type_name |-> None, label |-> None]

RefField(name, number, type, type_name, label) ==
    [name |-> Some(<<name>>), number |-> Some(number), type |-> Some(type),
     type_name |-> Some(type_name), label |-> label]

DescriptorProto(name, field, nested_type, enum_type) ==
    [name |-> name, field |-> field, nested_type |-> nested_type, enum_type |-> enum_type]

EnumValueDescriptorProto(name, number) == [name |-> Some(<<name>>), number |-> Some(number)]

EnumDescriptorProto(name, value) == [name |-> name, value |-> value]

MethodDescriptorProto(name, input_type, output_type) ==
    [name |-> Some(<<name>>), input_type |-> input_type, output_type |-> output_type]

ServiceDescriptorProto(name, method) == [name |-> name, method |-> method]

FileDescriptorProto(name, package, message_type, enum_type, service) ==
    [name |-> name, package |-> package, message_type |-> message_type,
     enum_type |-> enum_type, service |-> service]

PkgUserV1 == <<"user", ".", "v1">>

PkgGoogleProtobuf == <<"google", ".", "protobuf">>

FqTimestamp == <<".", "google", ".", "protobuf", ".", "Timestamp">>

FqEmpty == <<".", "google", ".", "protobuf", ".", "Empty">>

FqUser == <<".", "user", ".", "v1", ".", "User">>

\* the file of test_definition_level_nodes
UserFile ==
    FileDescriptorProto(
        Some(<<"user", "/", "v1", "/", "user", ".", "proto">>), Some(PkgUserV1),
        <<DescriptorProto(Some(<<"GetUserRequest">>),
                          <<ScalarField("user_id", 1, TYPE_STRING)>>, <<>>, <<>>),
          DescriptorProto(Some(<<"User">>),
                          <<ScalarField("id", 1, TYPE_STRING),
                            RefField("status", 2, TYPE_ENUM,
                                     <<".", "user", ".", "v1", ".", "UserStatus">>, None)>>,
                          <<>>, <<>>)>>,
        <<EnumDescriptorProto(Some(<<"UserStatus">>),
                              <<EnumValueDescriptorProto("UNKNOWN", 0),
                                EnumValueDescriptorProto("ACTIVE", 1)>>)>>,
        <<ServiceDescriptorProto(Some(<<"UserService">>),
              <<MethodDescriptorProto("GetUser",
                    Some(<<".", "user", ".", "v1", ".", "GetUserRequest">>),
                    Some(FqUser))>>)>>)

\* the external file of test_external_dependencies, with a second message
TimestampFile ==
    FileDescriptorProto(
        Some(<<"google", "/", "protobuf", "/", "timestamp", ".", "proto">>),
        Some(PkgGoogleProtobuf),
        <<DescriptorProto(Some(<<"Timestamp">>),
                          <<ScalarField("seconds", 1, TYPE_INT64)>>, <<>>, <<>>),
          DescriptorProto(Some(<<"Duration">>), <<>>, <<>>, <<>>)>>,
        <<>>, <<>>)

\* two internal messages that reference Timestamp, one of them twice, and a
\* message of another file; an enum with the name of a message of UserFile, in
\* the same package, and a service with the name of a message of this file
ProfileFile ==
    FileDescriptorProto(
        Some(<<"user", "/", "v1", "/", "profile", ".", "proto">>), Some(PkgUserV1),
        <<DescriptorProto(Some(<<"Profile">>),
                          <<RefField("created_at", 1, TYPE_MESSAGE, FqTimestamp, None),
                            RefField("updated_at", 2, TYPE_MESSAGE, FqTimestamp, None),
                            RefField("owner", 3, TYPE_MESSAGE, FqUser, None)>>,
                          <<>>, <<>>),
          DescriptorProto(Some(<<"Audit">>),
                          <<RefField("at", 1, TYPE_MESSAGE, FqTimestamp,
                                     Some(LABEL_REPEATED))>>,
                          <<>>, <<>>)>>,
        <<EnumDescriptorProto(Some(<<"User">>), <<EnumValueDescriptorProto("USER_X", 0)>>)>>,
        <<ServiceDescriptorProto(Some(<<"Profile">>),
              <<MethodDescriptorProto("Owner", Some(FqUser), Some(FqUser))>>)>>)

\* nested types, a self reference, a service that returns an external type, a
\* field of a type that an external file declares in package "validate" and a
\* field of an enum nested two levels deep
OrderFile ==
    FileDescriptorProto(
        Some(<<"shop", "/", "order", ".", "proto">>), Some(<<"shop">>),
        <<DescriptorProto(Some(<<"Order">>),
              <<RefField("item", 1, TYPE_MESSAGE,
                         <<".", "shop", ".", "Order", ".", "Item">>, Some(LABEL_REPEATED)),
                RefField("parent", 2, TYPE_MESSAGE, <<".", "shop", ".", "Order">>, None),
                RefField("rule", 3, TYPE_MESSAGE, <<".", "validate", ".", "Rule">>, None),
                RefField("kind", 4, TYPE_ENUM,
                         <<".", "shop", ".", "Order", ".", "Item", ".", "Kind">>, None)>>,
              <<DescriptorProto(Some(<<"Item">>),
                    <<RefField("at", 1, TYPE_MESSAGE, FqEmpty, None)>>,
                    <<>>,
                    <<EnumDescriptorProto(Some(<<"Kind">>),
                                          <<EnumValueDescriptorProto("KIND_A", 0)>>)>>)>>,
              <<EnumDescriptorProto(Some(<<"State">>),
                                    <<EnumValueDescriptorProto("OPEN", 0)>>)>>)>>,
        <<>>,
        <<ServiceDescriptorProto(Some(<<"OrderService">>),
              <<MethodDescriptorProto("Cancel", Some(<<".", "shop", ".", "Order">>),
                                      Some(FqEmpty))>>)>>)

EmptyFile ==
    FileDescriptorProto(
        Some(<<"google", "/", "protobuf", "/", "empty", ".", "proto">>),
        Some(PkgGoogleProtobuf),
        <<DescriptorProto(Some(<<"Empty">>), <<>>, <<>>, <<>>)>>, <<>>, <<>>)

ValidateFile ==
    FileDescriptorProto(
        Some(<<"buf", "/", "validate", "/", "validate", ".", "proto">>),
        Some(<<"validate">>),
        <<DescriptorProto(Some(<<"Rule">>), <<>>, <<>>, <<>>)>>,
        <<EnumDescriptorProto(Some(<<"Ignore">>),
                              <<EnumValueDescriptorProto("IGNORE_UNSPECIFIED", 0)>>)>>,
        <<>>)

\* a file without a package: ids are the bare names; after each named
\* definition comes one without a name
BareFile ==
    FileDescriptorProto(
        Some(<<"bare", ".", "proto">>), None,
        <<DescriptorProto(Some(<<"Bare">>),
              <<ScalarField("id", 1, TYPE_STRING),
                RefField("kind", 2, TYPE_ENUM, <<".", "Kind">>, None),
                RefField("op", 3, TYPE_MESSAGE,
                         <<".", "google", ".", "longrunning", ".", "Operation">>, None)>>,
              <<>>, <<>>),
          DescriptorProto(None,
              <<RefField("bare", 1, TYPE_MESSAGE, <<".", "Bare">>, None)>>,
              <<DescriptorProto(Some(<<"Inner">>), <<>>, <<>>, <<>>)>>,
              <<>>)>>,
        <<EnumDescriptorProto(Some(<<"Kind">>), <<EnumValueDescriptorProto("KIND_X", 0)>>),
          EnumDescriptorProto(None, <<EnumValueDescriptorProto("KIND_Y", 0)>>)>>,
        <<ServiceDescriptorProto(Some(<<"BareService">>),
              <<MethodDescriptorProto("Ping", None, Some(<<".", "Bare">>))>>),
          ServiceDescriptorProto(None,
              <<MethodDescriptorProto("Pong", Some(<<".", "Bare">>), Some(<<".", "Kind">>))>>)>>)

\* a file without a name, holding definitions with and without a name
NamelessFile ==
    FileDescriptorProto(
        None, Some(<<"anon">>),
        <<DescriptorProto(Some(<<"Ghost">>),
              <<RefField("bare", 1, TYPE_MESSAGE, <<".", "Bare">>, None)>>, <<>>, <<>>),
          DescriptorProto(None,
              <<RefField("ghost", 1, TYPE_MESSAGE, <<".", "anon", ".", "Ghost">>, None)>>,
              <<>>, <<>>)>>,
        <<EnumDescriptorProto(None, <<EnumValueDescriptorProto("ZERO", 0)>>)>>,
        <<ServiceDescriptorProto(None,
              <<MethodDescriptorProto("Haunt", Some(<<".", "anon", ".", "Ghost">>),
                                      Some(<<".", "anon", ".", "Ghost">>))>>)>>)

\* an external file that declares a service
OperationsFile ==
    FileDescriptorProto(
        Some(<<"google", "/", "longrunning", "/", "operations", ".", "proto">>),
        Some(<<"google", ".", "longrunning">>),
        <<DescriptorProto(Some(<<"Operation">>), <<>>, <<>>, <<>>)>>,
        <<>>,
        <<ServiceDescriptorProto(Some(<<"Operations">>),
              <<MethodDescriptorProto("GetOperation",
                    Some(<<".", "google", ".", "longrunning", ".", "Operation">>),
                    Some(<<".", "google", ".", "longrunning", ".", "Operation">>))>>)>>)

UserCorpus == <<UserFile, TimestampFile, ProfileFile>>

ShopCorpus == <<OrderFile, EmptyFile, ValidateFile>>

BareCorpus == <<BareFile, NamelessFile, OperationsFile>>

Corpora == {UserCorpus, ShopCorpus, BareCorpus}

\* longest file list passed to analyze
MaxFiles == 2

\* the file lists of at most MaxFiles files of corpus c
Inputs(c) == UNION {[1..n -> Range(c)] : n \in 0..MaxFiles}

----------------------------------------------------------------------------
(* Graph builder: state machine of one Analyzer and its caller             *)

EmptyGraph == [nodes |-> <<>>, edges |-> <<>>, packages |-> <<>>]

AnalyzerInit ==
    /\ type_to_node_id = NewAnalyzer.type_to_node_id
    /\ type_to_message_def = NewAnalyzer.type_to_message_def
    /\ external_packages = NewAnalyzer.external_packages
    /\ calls = "new"
    /\ fds = <<>>
    /\ model = None
    /\ last_fresh = FALSE
    /\ prev_model = None

DiffIdle ==
    /\ pool = <<>>
    /\ base = EmptyGraph
    /\ head = EmptyGraph
    /\ report = None

Init ==
    /\ corpus \in Corpora
    /\ AnalyzerInit
    /\ DiffIdle
    /\ StepIdle
    /\ DecodeIdle

Self ==
    [type_to_node_id |-> type_to_node_id, type_to_message_def |-> type_to_message_def,
     external_packages |-> external_packages]

\* analyzer.analyze(&input) on the Analyzer as it is
Analyze ==
    \E input \in Inputs(corpus) :
        LET r == analyze(Self, input)
        IN \E packages \in Orderings(group_packages(r.nodes)) :
            /\ type_to_node_id' = r.st.type_to_node_id
            /\ type_to_message_def' = r.st.type_to_message_def
            /\ external_packages' = r.st.external_packages
            /\ calls' = "used"
            /\ fds' = input
            /\ model' = Some([nodes |-> r.nodes, edges |-> r.edges, packages |-> packages])
            /\ last_fresh' = (calls = "new")
            /\ prev_model' = IF input = fds /\ (calls = "used" \/ last_fresh)
                              THEN model ELSE None
            /\ UNCHANGED <<corpus, diffVars, stepVars, decodeVars>>

\* the caller replaces a used Analyzer by Analyzer::new()
New ==
    /\ calls = "used"
    /\ type_to_node_id' = NewAnalyzer.type_to_node_id
    /\ type_to_message_def' = NewAnalyzer.type_to_message_def
    /\ external_packages' = NewAnalyzer.external_packages
    /\ calls' = "new"
    /\ UNCHANGED <<corpus, fds, model, last_fresh, prev_model, diffVars, stepVars,
                   decodeVars>>

Next == Analyze \/ New

Spec == Init /\ [][Next]_vars

----------------------------------------------------------------------------
(* Properties of the graph builder *)

Graph == model[1]

NodeIds(g) == {g.nodes[i].id : i \in DOMAIN g.nodes}

\* the graph a newly constructed Analyzer returns for the last argument
FreshResult == analyze(NewAnalyzer, fds)

FileName(file) == unwrap_or(file.name, <<>>)

FilePackage(file) == unwrap_or(file.package, <<>>)

InternalFiles(files) == SelectSeq(files, LAMBDA f : ~is_external_file(FileName(f)))

ExternalFiles(files) == SelectSeq(files, LAMBDA f : is_external_file(FileName(f)))

\* C1: after analyze returns, the source and the target of every edge of the
\* graph are ids of nodes of the graph.
NoDanglingEdge ==
    IsSome(model) =>
        \A i \in DOMAIN Graph.edges :
            /\ Graph.edges[i].source \in NodeIds(Graph)
            /\ Graph.edges[i].target \in NodeIds(Graph)

\* C2: analyze on an Analyzer that has run before returns the node set, edge
\* set and package set that a newly constructed Analyzer returns for the same
\* argument.
NoStateSurvives ==
    IsSome(model) =>
        /\ Range(Graph.nodes) = Range(FreshResult.nodes)
        /\ Range(Graph.edges) = Range(FreshResult.edges)
        /\ Range(Graph.packages) = group_packages(FreshResult.nodes)

\* C3: two analyze calls with the same argument, in a row on one Analyzer or
\* each on a newly constructed Analyzer, return the same node set, the same
\* edge set and the same package set.
Deterministic ==
    (IsSome(prev_model) /\ IsSome(model)) =>
        /\ Range(prev_model[1].nodes) = Range(Graph.nodes)
        /\ Range(prev_model[1].edges) = Range(Graph.edges)
        /\ Range(prev_model[1].packages) = Range(Graph.packages)

\* C3 witness: the same argument was analyzed twice, by an Analyzer that also
\* holds names of another argument, the graph has edges and the two package
\* lists came out in different orders.
DeterministicWitness ==
    /\ IsSome(prev_model) /\ IsSome(model)
    /\ Graph.edges # <<>>
    /\ prev_model[1].packages # Graph.packages
    /\ DOMAIN type_to_node_id # DOMAIN FreshResult.st.type_to_node_id

\* C6: the edge list holds each (source, target) pair at most once.
NoDuplicateEdge ==
    IsSome(model) =>
        \A i, j \in DOMAIN Graph.edges :
            (/\ Graph.edges[i].source = Graph.edges[j].source
             /\ Graph.edges[i].target = Graph.edges[j].target) => i = j

\* C6 witness: a top-level message of the argument has two fields of the same
\* registered type, and the graph has the edge to it.
NoDuplicateEdgeWitness ==
    /\ IsSome(model)
    /\ \E f \in Range(InternalFiles(fds)) : \E m \in Range(f.message_type) :
         \E i, j \in DOMAIN m.field :
            /\ i # j /\ IsSome(m.name)
            /\ IsSome(m.field[i].type_name)
            /\ m.field[i].type_name = m.field[j].type_name
            /\ m.field[i].type_name[1] \in DOMAIN type_to_node_id
            /\ \E k \in DOMAIN Graph.edges :
                 /\ Graph.edges[k].source = generate_node_id(FilePackage(f), m.name[1])
                 /\ Graph.edges[k].target = type_to_node_id[m.field[i].type_name[1]]

\* the names the external files of the argument register, with their ids
ExternalTypes(files) ==
    FoldLeft(Pass1File, [st |-> NewAnalyzer, nodes |-> <<>>, edges |-> <<>>],
             ExternalFiles(files)).st.type_to_node_id

\* the type names of the fields of the named top-level messages of internal files
InternalFieldRefs(files) ==
    {m.field[i].type_name[1] :
        <<m, i>> \in {<<m, i>> \in UNION {{m} \X DOMAIN m.field :
                                           m \in UNION {Range(f.message_type) :
                                                          f \in Range(InternalFiles(files))}} :
                        /\ IsSome(m.name)
                        /\ IsSome(m.field[i].type_name)}}

ExternalNodeCount(g, id) ==
    Cardinality({i \in DOMAIN g.nodes :
                    g.nodes[i].node_type = "External" /\ g.nodes[i].id = id})

\* C7: a type that an external file of the argument declares has exactly one
\* External node when a field of an internal message references it, and none
\* otherwise.
ExternalExactlyOnce ==
    IsSome(model) =>
        \A T \in DOMAIN ExternalTypes(fds) :
            ExternalNodeCount(Graph, ExternalTypes(fds)[T])
                = IF T \in InternalFieldRefs(fds) THEN 1 ELSE 0

\* the argument holds google/protobuf/timestamp.proto, which declares Timestamp
\* in package google.protobuf, and an internal top-level message with a field
\* of type .google.protobuf.Timestamp
TimestampReferenced ==
    /\ IsSome(model)
    /\ \E f \in Range(fds) :
         /\ FileName(f) = <<"google", "/", "protobuf", "/", "timestamp", ".", "proto">>
         /\ FilePackage(f) = <<"google", ".", "protobuf">>
         /\ \E m \in Range(f.message_type) : m.name = Some(<<"Timestamp">>)
    /\ FqTimestamp \in InternalFieldRefs(fds)

TimestampNodes(file) ==
    {i \in DOMAIN Graph.nodes :
        /\ Graph.nodes[i].id = <<"google", ".", "protobuf", ".", "Timestamp">>
        /\ Graph.nodes[i].node_type = "External"
        /\ Graph.nodes[i].package = <<"google", ".", "protobuf">>
        /\ Graph.nodes[i].label = <<"Timestamp">>
        /\ Graph.nodes[i].file = file}

\* C8 as stated: the External node synthesized for .google.protobuf.Timestamp
\* has id google.protobuf.Timestamp, package google.protobuf, label Timestamp
\* and file google/protobuf/timestamp.proto.
TimestampNodeAsClaimed ==
    TimestampReferenced =>
        TimestampNodes(<<"google", "/", "protobuf", "/", "timestamp", ".", "proto">>) # {}

\* C8 amended: the External node synthesized for .google.protobuf.Timestamp has
\* id google.protobuf.Timestamp, package google.protobuf, label Timestamp and
\* file google/protobuf.proto, and it is the only node with that id.
TimestampNode ==
    TimestampReferenced =>
        /\ Cardinality(TimestampNodes(<<"google", "/", "protobuf", ".", "proto">>)) = 1
        /\ Cardinality({i \in DOMAIN Graph.nodes :
                Graph.nodes[i].id = <<"google", ".", "protobuf", ".", "Timestamp">>}) = 1

\* C8 witness: Timestamp is referenced and its External node is in the graph.
TimestampNodeWitness ==
    /\ TimestampReferenced
    /\ ExternalNodeCount(Graph, <<"google", ".", "protobuf", ".", "Timestamp">>) = 1

\* id, kind, label, package and file of a node
Identity(n) ==
    [id |-> n.id, node_type |-> n.node_type, label |-> n.label, package |-> n.package,
     file |-> n.file]

\* what C9 expects of the node of a definition named `name` in `file`
ExpectedIdentity(file, node_type, name) ==
    [id |-> IF FilePackage(file) = <<>> THEN name
            ELSE FilePackage(file) \o <<".">> \o name,
     node_type |-> node_type, label |-> name, package |-> FilePackage(file),
     file |-> FileName(file)]

\* one expected identity per named top-level definition of `file`
DefinitionsOf(file) ==
    LET named(defs, node_type) ==
            FoldLeft(LAMBDA acc, d : IF IsSome(d.name)
                                     THEN Append(acc, ExpectedIdentity(file, node_type, d.name[1]))
                                     ELSE acc,
                     <<>>, defs)
    IN named(file.message_type, "Message") \o named(file.enum_type, "Enum")
       \o named(file.service, "Service")

InternalDefinitions(files) ==
    FoldLeft(LAMBDA acc, f : acc \o DefinitionsOf(f), <<>>, InternalFiles(files))

Count(seq, x) == Cardinality({i \in DOMAIN seq : seq[i] = x})

\* C9: every named top-level message, enum and service of an internal file has
\* exactly one node of its own, with id {package}.{name} (or {name}), its kind,
\* its name as label, the file's package and the file's name; when the
\* argument has no external file and the graph no External node, there are no
\* other nodes; the UserService file alone gives 4 nodes and 3 edges.
DefinitionNodes ==
    IsSome(model) =>
        LET defs == InternalDefinitions(fds)
            identities == [i \in DOMAIN Graph.nodes |-> Identity(Graph.nodes[i])]
        IN /\ \A d \in Range(defs) : Count(identities, d) = Count(defs, d)
           /\ (/\ ExternalFiles(fds) = <<>>
               /\ \A i \in DOMAIN Graph.nodes : Graph.nodes[i].node_type # "External")
              => Len(Graph.nodes) = Len(defs)
           /\ fds = <<UserFile>> => (Len(Graph.nodes) = 4 /\ Len(Graph.edges) = 3)

\* C9 witness: a file without a package was analyzed with a file that has one,
\* and the graph holds the node of message Bare under the bare name.
DefinitionNodesWitness ==
    /\ IsSome(model)
    /\ Len(fds) = 2
    /\ BareFile \in Range(fds)
    /\ \E f \in Range(fds) : FilePackage(f) # <<>>
    /\ \E i \in DOMAIN Graph.nodes :
         Identity(Graph.nodes[i]) =
            [id |-> <<"Bare">>, node_type |-> "Message", label |-> <<"Bare">>,
             package |-> <<>>, file |-> <<"bare", ".", "proto">>]

\* the files of the list that have a name
NamedFiles(files) == SelectSeq(files, LAMBDA f : IsSome(f.name))

\* the last analyze call was made on a newly constructed Analyzer, whose maps
\* are those the call left
FreshCall == IsSome(model) /\ last_fresh /\ calls = "used"

\* C12: a file without a name contributes no nodes and no edges: the graph is
\* the one that the named files of the argument give alone.
NamelessFileContributesNothing ==
    FreshCall =>
        /\ Graph.nodes = analyze(NewAnalyzer, NamedFiles(fds)).nodes
        /\ Graph.edges = analyze(NewAnalyzer, NamedFiles(fds)).edges

HasName(d) == IsSome(d.name)

\* the file without its top-level messages, enums and services that lack a name
StripUnnamed(f) ==
    [f EXCEPT !.message_type = SelectSeq(@, HasName),
              !.enum_type = SelectSeq(@, HasName),
              !.service = SelectSeq(@, HasName)]

StripUnnamedFiles(files) == [i \in DOMAIN files |-> StripUnnamed(files[i])]

HasUnnamed(f) ==
    /\ \E m \in Range(f.message_type) : ~HasName(m)
    /\ \E e \in Range(f.enum_type) : ~HasName(e)
    /\ \E s \in Range(f.service) : ~HasName(s)

\* C13: a message, enum or service without a name is skipped: the nodes, the
\* edges and the type-name maps are those that the argument gives without these
\* declarations, and a graph is returned for the remaining definitions.
UnnamedSkipped ==
    FreshCall =>
        LET r == analyze(NewAnalyzer, StripUnnamedFiles(fds))
        IN /\ Graph.nodes = r.nodes
           /\ Graph.edges = r.edges
           /\ type_to_node_id = r.st.type_to_node_id
           /\ type_to_message_def = r.st.type_to_message_def
           /\ \A i \in DOMAIN Graph.nodes : Graph.nodes[i].label # <<>>

\* C13 witness: a named file with a message, an enum and a service without a
\* name was analyzed, the unnamed declarations have fields and methods of
\* registered types, and the graph holds the nodes and edges of the named ones.
UnnamedSkippedWitness ==
    /\ FreshCall
    /\ \E f \in Range(fds) :
         /\ IsSome(f.name) /\ HasUnnamed(f)
         /\ \E m \in Range(f.message_type) :
              /\ ~HasName(m)
              /\ \E i \in DOMAIN m.field :
                    /\ IsSome(m.field[i].type_name)
                    /\ m.field[i].type_name[1] \in DOMAIN type_to_node_id
         /\ \E i \in DOMAIN Graph.nodes : Graph.nodes[i].file = f.name[1]
    /\ Graph.edges # <<>>

\* C14: no two nodes of the graph returned by analyze have the same id.
UniqueNodeIds ==
    IsSome(model) =>
        \A i, j \in DOMAIN Graph.nodes :
            Graph.nodes[i].id = Graph.nodes[j].id => i = j

\* C15: no edge of the graph returned by analyze has its source as its target.
NoSelfLoop ==
    IsSome(model) =>
        \A i \in DOMAIN Graph.edges : Graph.edges[i].source # Graph.edges[i].target

\* the positions of the packages whose node_ids hold the id
PackagesOf(g, id) ==
    {i \in DOMAIN g.packages : id \in Range(g.packages[i].node_ids)}

\* C16: the package list is a complete partition of the nodes: no two packages
\* share an id, every node id (that of an External node too) is in the
\* node_ids of exactly one package, whose id is the node's package, and the
\* node_ids of a package list the nodes of that package and nothing else.
PackagesPartition ==
    IsSome(model) =>
        /\ \A i, j \in DOMAIN Graph.packages :
              Graph.packages[i].id = Graph.packages[j].id => i = j
        /\ \A n \in Range(Graph.nodes) :
              /\ Cardinality(PackagesOf(Graph, n.id)) = 1
              /\ \A i \in PackagesOf(Graph, n.id) : Graph.packages[i].id = n.package
        /\ \A i \in DOMAIN Graph.packages :
              Graph.packages[i].node_ids =
                  LET mine == SelectSeq(Graph.nodes,
                                        LAMBDA n : n.package = Graph.packages[i].id)
                  IN [k \in DOMAIN mine |-> mine[k].id]

\* C16 witness: the graph has an External node in a package of its own and a
\* package of several nodes.
PackagesPartitionWitness ==
    /\ IsSome(model)
    /\ Len(Graph.packages) >= 2
    /\ \E i \in DOMAIN Graph.packages : Len(Graph.packages[i].node_ids) >= 2
    /\ \E n \in Range(Graph.nodes) :
         /\ n.node_type = "External"
         /\ \E i \in DOMAIN Graph.packages :
              Graph.packages[i].id = n.package /\ Graph.packages[i].node_ids = <<n.id>>

\* the fully-qualified names of the named messages and enums nested in message
\* m, whose fully-qualified name is fq, at every depth
RECURSIVE NestedIn(_, _)
NestedIn(m, fq) ==
    UNION {{fq \o <<".">> \o n.name[1]} \cup NestedIn(n, fq \o <<".">> \o n.name[1]) :
             n \in {n \in Range(m.nested_type) : IsSome(n.name)}}
    \cup {fq \o <<".">> \o e.name[1] : e \in {e \in Range(m.enum_type) : IsSome(e.name)}}

\* the nested names of the named top-level messages of the files
NestedNames(files) ==
    UNION {NestedIn(m, generate_fq_type(FilePackage(f), m.name[1])) :
             <<f, m>> \in {<<f, m>> \in UNION {{f} \X Range(f.message_type) :
                                                 f \in Range(files)} : IsSome(m.name)}}

\* the graph has the edge
HasEdge(g, source, target) ==
    \E k \in DOMAIN g.edges : g.edges[k].source = source /\ g.edges[k].target = target

\* the (message id, type name) pairs of the fields with a type name of the named
\* top-level messages of the internal files
FieldRefs(files) ==
    UNION {{<<generate_node_id(FilePackage(f), m.name[1]), m.field[i].type_name[1]>> :
              i \in {i \in DOMAIN m.field : IsSome(m.field[i].type_name)}} :
             <<f, m>> \in {<<f, m>> \in UNION {{f} \X Range(f.message_type) :
                                                 f \in Range(InternalFiles(files))} :
                             IsSome(m.name)}}

\* C21: every message and enum nested at any depth in a named top-level
\* message, of an internal or an external file, is registered under the
\* parent's name extended by .{name} with that name without the leading dot as
\* id, and a field of a top-level internal message of such a type yields the
\* edge to that id.
NestedRegistered ==
    FreshCall =>
        /\ \A T \in NestedNames(fds) :
              /\ T \in DOMAIN type_to_node_id
              /\ type_to_node_id[T] = trim_start_matches_dot(T)
        /\ \A ref \in FieldRefs(fds) :
              ref[2] \in NestedNames(fds) =>
                  HasEdge(Graph, ref[1], trim_start_matches_dot(ref[2]))

\* C22: a field reference that resolves has an External node for its target if
\* and only if the target was registered from an external file and no other
\* node has that id.
ExternalIffExternalFile ==
    FreshCall =>
        \A ref \in FieldRefs(fds) :
            ref[2] \in DOMAIN type_to_node_id =>
                LET id == type_to_node_id[ref[2]]
                IN (ExternalNodeCount(Graph, id) >= 1) <=>
                      /\ ref[2] \in DOMAIN ExternalTypes(fds)
                      /\ ~\E n \in Range(Graph.nodes) : n.id = id /\ n.node_type # "External"

\* C23: for every Service node of the graph and every method of its service,
\* the graph has the edge from the service's id to the id of the input type and
\* to that of the output type when the type name is registered, whichever file
\* declares the service.
ServiceEdges ==
    FreshCall =>
        \A f \in Range(fds) : \A s \in Range(f.service) :
            IsSome(s.name) =>
                \A m \in Range(s.method) : \A t \in {m.input_type, m.output_type} :
                    (IsSome(t) /\ t[1] \in DOMAIN type_to_node_id) =>
                        HasEdge(Graph, generate_node_id(FilePackage(f), s.name[1]),
                                type_to_node_id[t[1]])

\* the named services of the files, in the order of pass 2
NamedServices(files) ==
    FoldLeft(LAMBDA acc, f : acc \o SelectSeq(f.service, HasName), <<>>, files)

\* the type names the methods of the service reference, input before output
MethodRefs(service) ==
    FoldLeft(LAMBDA acc, m : acc \o m.input_type \o m.output_type, <<>>, service.method)

\* one definition per distinct referenced type name that the map holds, in the
\* order of the first reference
ExpectedMessages(service, defs) ==
    LET refs == MethodRefs(service)
        first == SelectSeq([i \in DOMAIN refs |-> i],
                           LAMBDA i : /\ refs[i] \in DOMAIN defs
                                      /\ \A j \in 1..(i - 1) : refs[j] # refs[i])
    IN [k \in DOMAIN first |-> defs[refs[first[k]]]]

ServiceNodes(g) == SelectSeq(g.nodes, LAMBDA n : n.node_type = "Service")

\* a file after the first declares the top-level message of that
\* fully-qualified name
DeclaredLater(files, fq_type) ==
    \E i \in 2..Len(files) : \E m \in Range(files[i].message_type) :
        IsSome(m.name) /\ generate_fq_type(FilePackage(files[i]), m.name[1]) = fq_type

\* C24: the messages of a Service node are, in the order of the first reference
\* over the methods' input then output types, one MessageDef for each distinct
\* referenced type name that the message-definition map of pass 1 holds, also
\* when a later file declares the message, and nothing else.
ServiceMessagesExact ==
    (IsSome(model) /\ calls = "used") =>
        /\ Len(ServiceNodes(Graph)) = Len(NamedServices(fds))
        /\ \A i \in DOMAIN ServiceNodes(Graph) :
              ServiceNodes(Graph)[i].details.messages
                = ExpectedMessages(NamedServices(fds)[i], type_to_message_def)

\* C24 witness: the service of the first file references twice a message that
\* only a later file declares, and its node embeds the definition once.
ServiceMessagesExactWitness ==
    /\ FreshCall
    /\ Len(fds) = 2
    /\ \E s \in Range(fds[1].service) :
         /\ IsSome(s.name)
         /\ \E i, j \in DOMAIN MethodRefs(s) :
              /\ i # j /\ MethodRefs(s)[i] = MethodRefs(s)[j]
              /\ DeclaredLater(fds, MethodRefs(s)[i])
              /\ ~\E m \in Range(fds[1].message_type) :
                    /\ IsSome(m.name)
                    /\ generate_fq_type(FilePackage(fds[1]), m.name[1]) = MethodRefs(s)[i]
         /\ \E n \in Range(Graph.nodes) :
              /\ n.node_type = "Service" /\ n.label = s.name[1]
              /\ Len(n.details.messages) = 1

----------------------------------------------------------------------------
(* Diff engine (src/src/diff.rs)                                           *)

\* the words of the node ids of the pools, in the byte order of str::cmp;
\* '.' sorts before every character of a word
TokenOrder == <<".", "E", "M", "NewMessage", "OldMessage", "S", "T", "User",
                "UserService", "a", "g", "user", "v1">>

TokenRank(t) == CHOOSE i \in DOMAIN TokenOrder : TokenOrder[i] = t

\* a.cmp(b) == Ordering::Less for two strings
RECURSIVE StrLess(_, _)
StrLess(a, b) ==
    IF a = <<>> THEN b # <<>>
    ELSE IF b = <<>> THEN FALSE
    ELSE IF Head(a) = Head(b) THEN StrLess(Tail(a), Tail(b))
    ELSE TokenRank(Head(a)) < TokenRank(Head(b))

\* the items of set S, which have distinct keys, sorted by key: what sort_by
\* makes of them whatever order the HashSet iteration pushed them in
RECURSIVE SortedBy(_, _)
SortedBy(Key(_), S) ==
    IF S = {} THEN <<>>
    ELSE LET least == CHOOSE x \in S : \A y \in S \ {x} : StrLess(Key(x), Key(y))
         IN <<least>> \o SortedBy(Key, S \ {least})

\* a map that keeps the first node with an id, as entry().or_insert() would
NodeMap_first(nodes) ==
    [id \in {nodes[i].id : i \in DOMAIN nodes} |->
        nodes[CHOOSE i \in DOMAIN nodes :
                /\ nodes[i].id = id
                /\ \A j \in DOMAIN nodes : nodes[j].id = id => i <= j]]

\* nodes.iter().map(|n| (n.id.as_str(), n)).collect::<HashMap>(): the last node
\* with an id is the one the map keeps
NodeMap(nodes) ==
    [id \in {nodes[i].id : i \in DOMAIN nodes} |->
        nodes[CHOOSE i \in DOMAIN nodes :
                /\ nodes[i].id = id
                /\ \A j \in DOMAIN nodes : nodes[j].id = id => j <= i]]

DiffNodeFrom(node) == [id |-> node.id, label |-> node.label, package |-> node.package]

\* the sequence back to front
Reverse(seq) == [i \in DOMAIN seq |-> seq[Len(seq) + 1 - i]]

\* collect_diff_items that sorts by b.id.cmp(&a.id): descending
collect_diff_items_desc(ids, nodes) ==
    LET of_type(node_type) ==
            Reverse(SortedBy(LAMBDA d : d.id,
                     {DiffNodeFrom(nodes[id]) :
                        id \in {x \in ids \cap DOMAIN nodes : nodes[x].node_type = node_type}}))
    IN [services |-> of_type("Service"), messages |-> of_type("Message"),
        enums |-> of_type("Enum")]

\* collect_diff_items that pushes an External node to the messages
collect_diff_items_external(ids, nodes) ==
    LET of_types(node_types) ==
            SortedBy(LAMBDA d : d.id,
                     {DiffNodeFrom(nodes[id]) :
                        id \in {x \in ids \cap DOMAIN nodes : nodes[x].node_type \in node_types}})
    IN [services |-> of_types({"Service"}), messages |-> of_types({"Message", "External"}),
        enums |-> of_types({"Enum"})]

collect_diff_items(ids, nodes) ==
    LET of_type(node_type) ==
            SortedBy(LAMBDA d : d.id,
                     {DiffNodeFrom(nodes[id]) :
                        id \in {x \in ids \cap DOMAIN nodes : nodes[x].node_type = node_type}})
    IN [services |-> of_type("Service"), messages |-> of_type("Message"),
        enums |-> of_type("Enum")]

\* the first item of list with the name: list.iter().find(|m| m.name == name)
FindByName(list, name) ==
    list[CHOOSE i \in DOMAIN list :
            /\ list[i].name = name
            /\ \A j \in DOMAIN list : list[j].name = name => i <= j]

Names(list) == {list[i].name : i \in DOMAIN list}

\* compute_member_changes that also compares the members of one name: a member
\* whose record differs between base and head is reported as added
compute_member_changes_deep(base_list, head_list, added_type, removed_type) ==
    LET added == {[type |-> added_type, item |-> FindByName(head_list, name)] :
                    name \in {n \in Names(head_list) :
                                n \in Names(base_list) =>
                                    FindByName(head_list, n) # FindByName(base_list, n)}}
        removed == {[type |-> removed_type, item |-> FindByName(base_list, name)] :
                      name \in Names(base_list) \ Names(head_list)}
    IN {a \o r : a \in Orderings(added), r \in Orderings(removed)}

\* compute_method_changes, compute_field_changes and compute_enum_changes: the
\* Added changes in the iteration order of one HashSet difference, then the
\* Removed changes in that of the other; every order is a possible result
compute_member_changes(base_list, head_list, added_type, removed_type) ==
    LET added == {[type |-> added_type, item |-> FindByName(head_list, name)] :
                    name \in Names(head_list) \ Names(base_list)}
        removed == {[type |-> removed_type, item |-> FindByName(base_list, name)] :
                      name \in Names(base_list) \ Names(head_list)}
    IN {a \o r : a \in Orderings(added), r \in Orderings(removed)}

compute_method_changes(base_methods, head_methods) ==
    compute_member_changes(base_methods, head_methods, "MethodAdded", "MethodRemoved")

compute_field_changes(base_fields, head_fields) ==
    compute_member_changes(base_fields, head_fields, "FieldAdded", "FieldRemoved")

compute_enum_changes(base_values, head_values) ==
    compute_member_changes(base_values, head_values, "EnumValueAdded", "EnumValueRemoved")

ModifiedItemOf(head_node, changes) ==
    [node_id |-> head_node.id, label |-> head_node.label,
     node_type |-> head_node.node_type, package |-> head_node.package,
     changes |-> changes]

\* compute_node_changes that keeps a node whose change list is empty
compute_node_changes_always(base_node, head_node) ==
    LET b == base_node.details
        h == head_node.details
        changes ==
            IF b.kind = "Service" /\ h.kind = "Service"
            THEN compute_method_changes(b.methods, h.methods)
            ELSE IF b.kind = "Message" /\ h.kind = "Message"
            THEN compute_field_changes(b.fields, h.fields)
            ELSE IF b.kind = "Enum" /\ h.kind = "Enum"
            THEN compute_enum_changes(b.values, h.values)
            ELSE {<<>>}
    IN {Some(ModifiedItemOf(head_node, c)) : c \in changes}

\* compute_node_changes that, for two details of different kinds, reports the
\* members of head as added and those of base as removed
compute_node_changes_mismatch(base_node, head_node) ==
    LET b == base_node.details
        h == head_node.details
        members(d) == IF d.kind = "Service" THEN d.methods
                      ELSE IF d.kind = "Message" THEN d.fields
                      ELSE IF d.kind = "Enum" THEN d.values
                      ELSE <<>>
        changes ==
            IF b.kind = "Service" /\ h.kind = "Service"
            THEN compute_method_changes(b.methods, h.methods)
            ELSE IF b.kind = "Message" /\ h.kind = "Message"
            THEN compute_field_changes(b.fields, h.fields)
            ELSE IF b.kind = "Enum" /\ h.kind = "Enum"
            THEN compute_enum_changes(b.values, h.values)
            ELSE IF b.kind = h.kind THEN {<<>>}
            ELSE compute_member_changes(<<>>, members(h), "FieldAdded", "FieldRemoved")
    IN {IF c = <<>> THEN None ELSE Some(ModifiedItemOf(head_node, c)) : c \in changes}

\* the possible results of compute_node_changes: Option<ModifiedItem>
compute_node_changes(base_node, head_node) ==
    LET b == base_node.details
        h == head_node.details
        changes ==
            IF b.kind = "Service" /\ h.kind = "Service"
            THEN compute_method_changes(b.methods, h.methods)
            ELSE IF b.kind = "Message" /\ h.kind = "Message"
            THEN compute_field_changes(b.fields, h.fields)
            ELSE IF b.kind = "Enum" /\ h.kind = "Enum"
            THEN compute_enum_changes(b.values, h.values)
            ELSE {<<>>}
    IN {IF c = <<>> THEN None ELSE Some(ModifiedItemOf(head_node, c)) : c \in changes}

\* added without the set difference: every id of head
AddedItems_all(base_nodes, head_nodes) ==
    collect_diff_items(DOMAIN head_nodes, head_nodes)

\* added: the ids of head that base lacks, looked up in head
AddedItems(base_nodes, head_nodes) ==
    collect_diff_items(DOMAIN head_nodes \ DOMAIN base_nodes, head_nodes)

\* removed as every node of base, also those whose id head has
RemovedItems_all(base_nodes, head_nodes) ==
    collect_diff_items(DOMAIN base_nodes, base_nodes)

\* removed: the ids of base that head lacks, looked up in base
RemovedItems(base_nodes, head_nodes) ==
    collect_diff_items(DOMAIN base_nodes \ DOMAIN head_nodes, base_nodes)

\* the possible modified lists for the ids of `ids`, a list sorted by id: the
\* items that compute_node_changes returns, in the order of their node_id
RECURSIVE ModifiedLists(_, _, _)
ModifiedLists(ids, base_nodes, head_nodes) ==
    IF ids = <<>> THEN {<<>>}
    ELSE {item \o rest :
            item \in compute_node_changes(base_nodes[Head(ids)], head_nodes[Head(ids)]),
            rest \in ModifiedLists(Tail(ids), base_nodes, head_nodes)}

\* compute that also compares the edges and the packages of the graphs and
\* reports every node of head as added when they differ
compute_graphs(base_graph, head_graph) ==
    LET base_nodes == NodeMap(base_graph.nodes)
        head_nodes == NodeMap(head_graph.nodes)
        common == SortedBy(LAMBDA id : id, DOMAIN base_nodes \cap DOMAIN head_nodes)
        same == /\ base_graph.edges = head_graph.edges
                /\ base_graph.packages = head_graph.packages
    IN {[added |-> IF same THEN AddedItems(base_nodes, head_nodes)
                   ELSE collect_diff_items(DOMAIN head_nodes, head_nodes),
         removed |-> RemovedItems(base_nodes, head_nodes),
         modified |-> m] : m \in ModifiedLists(common, base_nodes, head_nodes)}

\* the DiffReports that DiffReport::compute(base, head) can return
compute(base_graph, head_graph) ==
    LET base_nodes == NodeMap(base_graph.nodes)
        head_nodes == NodeMap(head_graph.nodes)
        common == SortedBy(LAMBDA id : id, DOMAIN base_nodes \cap DOMAIN head_nodes)
    IN {[added |-> AddedItems(base_nodes, head_nodes),
         removed |-> RemovedItems(base_nodes, head_nodes),
         modified |-> m] : m \in ModifiedLists(common, base_nodes, head_nodes)}

\* is_empty with || for &&
is_empty_any(items) == items.services = <<>> \/ items.messages = <<>> \/ items.enums = <<>>

is_empty(items) == items.services = <<>> /\ items.messages = <<>> /\ items.enums = <<>>

has_changes(r) == ~is_empty(r.added) \/ ~is_empty(r.removed) \/ r.modified # <<>>

----------------------------------------------------------------------------
(* Graphs given to compute *)

MethodSignature(name, input_type, output_type) ==
    [name |-> <<name>>, input_type |-> <<input_type>>, output_type |-> <<output_type>>]

FieldInfo(name, number, type_name, label) ==
    [name |-> <<name>>, number |-> number, type_name |-> <<type_name>>, label |-> <<label>>]

EnumValue(name, number) == [name |-> <<name>>, number |-> number]

ServiceDetails(methods) == [kind |-> "Service", methods |-> methods, messages |-> <<>>]

MessageDetails(fields) == [kind |-> "Message", fields |-> fields]

EnumDetails(values) == [kind |-> "Enum", values |-> values]

UserProto == <<"user", "/", "v1", "/", "user", ".", "proto">>

AProto == <<"a", ".", "proto">>

\* the service of create_base_model and of create_head_model, and the two
\* messages that only one of them has
UserPool ==
    <<NewNode(<<"user", ".", "v1", ".", "UserService">>, "Service", PkgUserV1,
              <<"UserService">>, UserProto,
              ServiceDetails(<<MethodSignature("GetUser", "GetUserRequest", "User")>>)),
      NewNode(<<"user", ".", "v1", ".", "UserService">>, "Service", PkgUserV1,
              <<"UserService">>, UserProto,
              ServiceDetails(<<MethodSignature("GetUser", "GetUserRequest", "User"),
                               MethodSignature("CreateUser", "CreateUserRequest", "User")>>)),
      NewNode(<<"user", ".", "v1", ".", "OldMessage">>, "Message", PkgUserV1,
              <<"OldMessage">>, UserProto, MessageDetails(<<>>)),
      NewNode(<<"user", ".", "v1", ".", "NewMessage">>, "Message", PkgUserV1,
              <<"NewMessage">>, UserProto, MessageDetails(<<>>))>>

\* a message and an enum, each in two versions: members added and removed, and
\* members that keep their name and change their type or number
MemberPool ==
    <<NewNode(<<"user", ".", "v1", ".", "User">>, "Message", PkgUserV1, <<"User">>,
              UserProto, MessageDetails(<<FieldInfo("id", 1, "string", "optional")>>)),
      NewNode(<<"user", ".", "v1", ".", "User">>, "Message", PkgUserV1, <<"User">>,
              UserProto,
              MessageDetails(<<FieldInfo("id", 7, "int64", "repeated"),
                               FieldInfo("email", 2, "string", "optional")>>)),
      NewNode(<<"a", ".", "E">>, "Enum", <<"a">>, <<"E">>, AProto,
              EnumDetails(<<EnumValue("U", 0), EnumValue("V", 1)>>)),
      NewNode(<<"a", ".", "E">>, "Enum", <<"a">>, <<"E">>, AProto,
              EnumDetails(<<EnumValue("U", 5)>>))>>

\* one id with two kinds, an External node and a service
KindPool ==
    <<NewNode(<<"a", ".", "M">>, "Message", <<"a">>, <<"M">>, AProto,
              MessageDetails(<<FieldInfo("x", 1, "string", "optional")>>)),
      NewNode(<<"a", ".", "M">>, "Enum", <<"a">>, <<"M">>, AProto,
              EnumDetails(<<EnumValue("x", 0)>>)),
      NewNode(<<"g", ".", "T">>, "External", <<"g">>, <<"T">>, <<"g", ".", "proto">>,
              [kind |-> "External"]),
      NewNode(<<"a", ".", "S">>, "Service", <<"a">>, <<"S">>, AProto,
              ServiceDetails(<<MethodSignature("m", "M", "M")>>))>>

\* one id with two labels and packages, a method name that occurs twice, an
\* External node with the id of a service
RenamePool ==
    <<NewNode(<<"a", ".", "S">>, "Service", <<"a">>, <<"S">>, AProto,
              ServiceDetails(<<MethodSignature("get", "M", "M")>>)),
      NewNode(<<"a", ".", "S">>, "Service", <<"b">>, <<"S2">>, <<"b", ".", "proto">>,
              ServiceDetails(<<MethodSignature("get", "E", "E"),
                               MethodSignature("put", "M", "E"),
                               MethodSignature("put", "E", "M"),
                               MethodSignature("del", "M", "M")>>)),
      NewNode(<<"a", ".", "S">>, "External", <<"a">>, <<"S">>, AProto,
              [kind |-> "External"]),
      NewNode(<<"a", ".", "E">>, "Message", <<"a">>, <<"E">>, AProto, MessageDetails(<<>>))>>

NodePools == {UserPool, MemberPool, KindPool, RenamePool}

\* most nodes of a graph given to compute
MaxNodes == 2

\* edges between the nodes: one from every node to the first
EdgesAmong(nodes) == [i \in DOMAIN nodes |-> NewEdge(nodes[i].id, nodes[1].id)]

\* the graphs of at most MaxNodes nodes of pool p: without edges and packages
\* as in create_base_model, and with edges and the packages of the nodes in
\* each order group_packages can return them
Graphs(p) ==
    UNION {{[nodes |-> nodes, edges |-> <<>>, packages |-> <<>>]}
           \cup {[nodes |-> nodes, edges |-> EdgesAmong(nodes), packages |-> packages] :
                   packages \in Orderings(group_packages(nodes))} :
             nodes \in UNION {[1..n -> Range(p)] : n \in 0..MaxNodes}}

----------------------------------------------------------------------------
(* Diff engine: one compute call on a pair of graphs *)

DiffInit ==
    /\ corpus = <<>>
    /\ AnalyzerInit
    /\ pool \in NodePools
    /\ base \in Graphs(pool)
    /\ head \in Graphs(pool)
    /\ report = None
    /\ StepIdle
    /\ DecodeIdle

\* DiffReport::compute(&base, &head)
Compute ==
    /\ report = None
    /\ \E r \in compute(base, head) : report' = Some(r)
    /\ UNCHANGED <<analyzerVars, pool, base, head, stepVars, decodeVars>>

DiffNext == Compute

DiffSpec == DiffInit /\ [][DiffNext]_vars

Report == report[1]

ItemIds(items) ==
    {items.services[i].id : i \in DOMAIN items.services}
    \cup {items.messages[i].id : i \in DOMAIN items.messages}
    \cup {items.enums[i].id : i \in DOMAIN items.enums}

ModifiedIds(r) == {r.modified[i].node_id : i \in DOMAIN r.modified}

\* C4: compute(g, g) has empty added, removed and modified, and has_changes()
\* is false.
SelfDiffEmpty ==
    (IsSome(report) /\ base = head) =>
        /\ is_empty(Report.added)
        /\ is_empty(Report.removed)
        /\ Report.modified = <<>>
        /\ ~has_changes(Report)

\* C4 witness: a graph that holds two different nodes with one id was compared
\* with itself.
SelfDiffEmptyWitness ==
    /\ IsSome(report) /\ base = head
    /\ Len(base.nodes) = 2
    /\ base.nodes[1].id = base.nodes[2].id
    /\ base.nodes[1] # base.nodes[2]

\* C5: no node id is in two of added, removed and modified.
Partition ==
    IsSome(report) =>
        /\ ItemIds(Report.added) \cap ItemIds(Report.removed) = {}
        /\ ItemIds(Report.added) \cap ModifiedIds(Report) = {}
        /\ ItemIds(Report.removed) \cap ModifiedIds(Report) = {}

\* C5 witness: a report with an added, a removed and a modified node.
PartitionWitness ==
    /\ IsSome(report)
    /\ ItemIds(Report.added) # {}
    /\ ItemIds(Report.removed) # {}
    /\ ModifiedIds(Report) # {}

Kinds == {"Service", "Message", "Enum"}

ItemsOf(items, kind) ==
    IF kind = "Service" THEN items.services
    ELSE IF kind = "Message" THEN items.messages
    ELSE items.enums

Entry(n) == [id |-> n.id, label |-> n.label, package |-> n.package]

\* the nodes of g that no later node of g shares the id of
LastNodes(g) ==
    {g.nodes[i] : i \in {i \in DOMAIN g.nodes :
                            \A j \in DOMAIN g.nodes : g.nodes[j].id = g.nodes[i].id => j <= i}}

\* the entries of `list` are those of the nodes of `from` of the kind whose id
\* `other` lacks
EntriesAre(list, kind, from, other) ==
    /\ {list[i].id : i \in DOMAIN list}
         = {n.id : n \in {n \in from : n.node_type = kind /\ n.id \notin NodeIds(other)}}
    /\ \A i \in DOMAIN list :
         \E n \in from : n.node_type = kind /\ list[i] = Entry(n)
    /\ \A i, j \in DOMAIN list : list[i].id = list[j].id => i = j

\* C10 as stated: the ids of added.services/messages/enums are the ids of the
\* head nodes of that kind whose id base lacks, those of removed the ids of the
\* base nodes of that kind whose id head lacks; each entry carries the node's
\* id, label and package.
AddedRemovedAsClaimed ==
    IsSome(report) =>
        \A kind \in Kinds :
            /\ EntriesAre(ItemsOf(Report.added, kind), kind, Range(head.nodes), base)
            /\ EntriesAre(ItemsOf(Report.removed, kind), kind, Range(base.nodes), head)

\* C10 amended: the same with, for every id, only the last node of the graph
\* that has the id.
AddedRemoved ==
    IsSome(report) =>
        \A kind \in Kinds :
            /\ EntriesAre(ItemsOf(Report.added, kind), kind, LastNodes(head), base)
            /\ EntriesAre(ItemsOf(Report.removed, kind), kind, LastNodes(base), head)

\* C10 witness: a report with an added and a removed node, for a head that
\* holds one id with two kinds.
AddedRemovedWitness ==
    /\ IsSome(report)
    /\ ItemIds(Report.added) # {}
    /\ ItemIds(Report.removed) # {}
    /\ \E i, j \in DOMAIN head.nodes :
         /\ head.nodes[i].id = head.nodes[j].id
         /\ head.nodes[i].node_type # head.nodes[j].node_type

----------------------------------------------------------------------------
(* Diff engine: the modified list *)

\* the node that a lookup of id in graph g gives: the last node with the id
NodeOf(g, id) == CHOOSE n \in LastNodes(g) : n.id = id

\* the members of a node that the diff compares by name
Members(n) ==
    IF n.details.kind = "Service" THEN n.details.methods
    ELSE IF n.details.kind = "Message" THEN n.details.fields
    ELSE IF n.details.kind = "Enum" THEN n.details.values
    ELSE <<>>

MemberNames(n) == {Members(n)[i].name : i \in DOMAIN Members(n)}

AddedType(kind) ==
    IF kind = "Service" THEN "MethodAdded"
    ELSE IF kind = "Message" THEN "FieldAdded" ELSE "EnumValueAdded"

RemovedType(kind) ==
    IF kind = "Service" THEN "MethodRemoved"
    ELSE IF kind = "Message" THEN "FieldRemoved" ELSE "EnumValueRemoved"

\* the (change type, member name) pairs the claim expects for a pair of nodes
ExpectedChanges(b, h) ==
    {<<AddedType(h.details.kind), name>> : name \in MemberNames(h) \ MemberNames(b)}
    \cup {<<RemovedType(h.details.kind), name>> : name \in MemberNames(b) \ MemberNames(h)}

\* C11: a node id is in modified if and only if both graphs have it, the details
\* of its node (for an id that several nodes of a graph have, the last of them)
\* have the same kind in both and the sets of member names differ; the change
\* list is never empty and holds exactly one Added change per name only in head
\* and one Removed change per name only in base, so a member with the same name
\* in both is never reported.
ModifiedByName ==
    IsSome(report) =>
        /\ \A i, j \in DOMAIN Report.modified :
              Report.modified[i].node_id = Report.modified[j].node_id => i = j
        /\ ModifiedIds(Report)
              = {id \in NodeIds(base) \cap NodeIds(head) :
                    /\ NodeOf(base, id).details.kind = NodeOf(head, id).details.kind
                    /\ MemberNames(NodeOf(base, id)) # MemberNames(NodeOf(head, id))}
        /\ \A i \in DOMAIN Report.modified :
              LET item == Report.modified[i]
                  b == NodeOf(base, item.node_id)
                  h == NodeOf(head, item.node_id)
              IN /\ item.changes # <<>>
                 /\ {<<item.changes[k].type, item.changes[k].item.name>> :
                        k \in DOMAIN item.changes} = ExpectedChanges(b, h)
                 /\ Len(item.changes) = Cardinality(ExpectedChanges(b, h))
                 /\ \A k \in DOMAIN item.changes :
                       item.changes[k].item.name
                         \notin MemberNames(b) \cap MemberNames(h)

\* C11 witness: a node was reported as modified for a member only one side has
\* while a member with the same name in both differs in its type or number.
ModifiedByNameWitness ==
    /\ IsSome(report)
    /\ \E i \in DOMAIN Report.modified :
         LET b == NodeOf(base, Report.modified[i].node_id)
             h == NodeOf(head, Report.modified[i].node_id)
         IN \E x \in DOMAIN Members(b), y \in DOMAIN Members(h) :
               /\ Members(b)[x].name = Members(h)[y].name
               /\ Members(b)[x] # Members(h)[y]

----------------------------------------------------------------------------
(* Diff engine: has_changes, order of the lists, kinds *)

\* C17: has_changes() is true if and only if one of added.services,
\* added.messages, added.enums, removed.services, removed.messages,
\* removed.enums and modified is not empty.
HasChangesIff ==
    IsSome(report) =>
        (has_changes(Report) <=>
            \/ Report.added.services # <<>>
            \/ Report.added.messages # <<>>
            \/ Report.added.enums # <<>>
            \/ Report.removed.services # <<>>
            \/ Report.removed.messages # <<>>
            \/ Report.removed.enums # <<>>
            \/ Report.modified # <<>>)

\* C17 witness: a report whose only non-empty list is removed.messages.
HasChangesIffWitness ==
    /\ IsSome(report)
    /\ is_empty(Report.added)
    /\ Report.modified = <<>>
    /\ Report.removed.services = <<>> /\ Report.removed.enums = <<>>
    /\ Report.removed.messages # <<>>

\* the keys of the list ascend strictly in the order of str::cmp
Ascending(keys) ==
    \A i, j \in DOMAIN keys : i < j => StrLess(keys[i], keys[j])

IdsOf(list) == [i \in DOMAIN list |-> list[i].id]

ReversedGraph(g) == [g EXCEPT !.nodes = Reverse(g.nodes)]

DistinctIds(g) == Cardinality(NodeIds(g)) = Len(g.nodes)

\* C18: each of the six lists of added and removed ascends by id and modified
\* ascends by node_id, whatever the order of the nodes in the graphs: the same
\* graphs with their nodes in the reverse order give the same reports.
ListsSorted ==
    IsSome(report) =>
        /\ \A items \in {Report.added, Report.removed} :
              /\ Ascending(IdsOf(items.services))
              /\ Ascending(IdsOf(items.messages))
              /\ Ascending(IdsOf(items.enums))
        /\ Ascending([i \in DOMAIN Report.modified |-> Report.modified[i].node_id])
        /\ (DistinctIds(base) /\ DistinctIds(head)) =>
              Report \in compute(ReversedGraph(base), ReversedGraph(head))

\* C18 witness: two nodes that head holds in descending order of id are both in
\* one list of added, or two nodes that base and head hold in descending order
\* of id are both in modified.
ListsSortedWitness ==
    /\ IsSome(report)
    /\ Len(head.nodes) = 2
    /\ StrLess(head.nodes[2].id, head.nodes[1].id)
    /\ \/ Len(Report.added.messages) = 2
       \/ Len(Report.modified) = 2

\* C19: an id whose node has one kind in base and another in head (for an id
\* that several nodes of a graph have, the last of them) is in none of added,
\* removed and modified.
KindMismatchSilent ==
    IsSome(report) =>
        \A id \in NodeIds(base) \cap NodeIds(head) :
            NodeOf(base, id).details.kind # NodeOf(head, id).details.kind =>
                id \notin ItemIds(Report.added) \cup ItemIds(Report.removed)
                              \cup ModifiedIds(Report)

\* C19 witness: an id is a Message with a field in base and an Enum in head.
KindMismatchSilentWitness ==
    /\ IsSome(report)
    /\ \E id \in NodeIds(base) \cap NodeIds(head) :
         /\ NodeOf(base, id).details.kind = "Message"
         /\ NodeOf(head, id).details.kind = "Enum"
         /\ NodeOf(base, id).details.fields # <<>>

NotExternal(n) == n.node_type # "External"

\* the ids whose node in g (the last with the id) is an External node
ExternalIds(g) == {n.id : n \in {n \in LastNodes(g) : n.node_type = "External"}}

\* C20: an External node that only one graph has is in none of added and
\* removed, an External node that both have is not in modified, and two graphs
\* that differ in External nodes only give has_changes() = false.
ExternalNeverDiffed ==
    IsSome(report) =>
        /\ \A id \in (ExternalIds(head) \ NodeIds(base)) \cup (ExternalIds(base) \ NodeIds(head)) :
              id \notin ItemIds(Report.added) \cup ItemIds(Report.removed)
        /\ \A id \in ExternalIds(base) \cap ExternalIds(head) : id \notin ModifiedIds(Report)
        /\ SelectSeq(base.nodes, NotExternal) = SelectSeq(head.nodes, NotExternal)
              => ~has_changes(Report)

\* C20 witness: head is base with one External node more, next to a node that
\* is not External.
ExternalNeverDiffedWitness ==
    /\ IsSome(report)
    /\ base # head
    /\ SelectSeq(base.nodes, NotExternal) = SelectSeq(head.nodes, NotExternal)
    /\ SelectSeq(base.nodes, NotExternal) # <<>>
    /\ ExternalIds(head) \ NodeIds(base) # {}

\* the change type of the opposite direction
Opposite(type) ==
    CASE type = "MethodAdded" -> "MethodRemoved"
      [] type = "MethodRemoved" -> "MethodAdded"
      [] type = "FieldAdded" -> "FieldRemoved"
      [] type = "FieldRemoved" -> "FieldAdded"
      [] type = "EnumValueAdded" -> "EnumValueRemoved"
      [] type = "EnumValueRemoved" -> "EnumValueAdded"

\* the (change type, member name) pairs of a modified item
ChangesOf(item) ==
    {<<item.changes[k].type, item.changes[k].item.name>> : k \in DOMAIN item.changes}

\* C29: for every report that compute(head, base) can return, the added items
\* of compute(base, head) are its removed items and the removed its added, list
\* by list; the modified ids are the same; and for each modified id the changes
\* of one direction are those of the other with Added and Removed exchanged,
\* name by name.
Antisymmetric ==
    IsSome(report) =>
        \A back \in compute(head, base) :
            /\ Report.added = back.removed
            /\ Report.removed = back.added
            /\ ModifiedIds(Report) = ModifiedIds(back)
            /\ \A i \in DOMAIN Report.modified : \A j \in DOMAIN back.modified :
                  Report.modified[i].node_id = back.modified[j].node_id =>
                      {<<Opposite(c[1]), c[2]>> : c \in ChangesOf(Report.modified[i])}
                        = ChangesOf(back.modified[j])

\* C29 witness: a report with an added item, a removed item and a modified
\* node with an Added change.
AntisymmetricWitness ==
    /\ IsSome(report)
    /\ ~is_empty(Report.added)
    /\ ~is_empty(Report.removed)
    /\ \E i \in DOMAIN Report.modified :
          \E c \in ChangesOf(Report.modified[i]) :
              c[1] \in {"MethodAdded", "FieldAdded", "EnumValueAdded"}

\* the graph with its node list only
NodesOf(g) == [nodes |-> g.nodes, edges |-> <<>>, packages |-> <<>>]

\* the graphs have the same node ids and, id by id, the same member names
SameIdsAndNames(b, h) ==
    /\ NodeIds(b) = NodeIds(h)
    /\ \A id \in NodeIds(b) : MemberNames(NodeOf(b, id)) = MemberNames(NodeOf(h, id))

\* C30: the report is one that compute returns for the node lists alone; for
\* graphs with the same node ids and member names it is empty and has_changes
\* is false, whatever their edges and packages.
ReadsNodesOnlyState ==
    IsSome(report) =>
        /\ Report \in compute(NodesOf(base), NodesOf(head))
        /\ SameIdsAndNames(base, head) =>
              /\ is_empty(Report.added)
              /\ is_empty(Report.removed)
              /\ Report.modified = <<>>
              /\ ~has_changes(Report)

\* C30: compute reads only the node lists of its inputs, and every step leaves
\* both input graphs as they were.
ReadsNodesOnly ==
    /\ []ReadsNodesOnlyState
    /\ [][base' = base /\ head' = head]_vars

\* C30 witness: compute has run on two graphs with nodes, the same node ids and
\* member names, and different edges and packages.
ReadsNodesOnlyWitness ==
    /\ IsSome(report)
    /\ base.nodes # <<>>
    /\ SameIdsAndNames(base, head)
    /\ base.nodes # head.nodes
    /\ base.edges # head.edges
    /\ base.packages # head.packages

----------------------------------------------------------------------------
(* Decoder (src/src/decoder.rs)                                            *)
(*                                                                         *)
(* The input is a sequence of bytes.  FileDescriptorSet::decode is prost's *)
(* wire-format decoder: a message is a sequence of fields, each a key byte *)
(* (tag * 8 + wire type) and a value; wire type 0 is a varint, wire type 2 *)
(* a length and that many bytes.  Every byte of ByteValues is below 128,   *)
(* so a varint is one byte and a string is valid UTF-8; their keys have    *)
(* tag 0, 1 or 2 and wire type 0, 1 or 2.  A string is kept as its bytes.  *)

\* the bytes the inputs are made of: 0, 1 and 2 are lengths and values and, as
\* keys, have the invalid tag 0; 10 is the key of field 1 with a length, 16 and
\* 18 the keys of field 2 with a varint and with a length
ByteValues == {0, 1, 2, 10, 16, 18}

\* longest input of the decoder
MaxBytes == 3

ByteInputs == UNION {[1..n -> ByteValues] : n \in 0..MaxBytes}

WireType(key) == key % 8

Tag(key) == key \div 8

\* prost::encoding::decode_key: the key is a tag of at least 1 and a wire type
\* of at most 5
ValidKey(key) == WireType(key) <= 5 /\ Tag(key) >= 1

\* the bytes of a length-delimited value at the head of buf: Some(value) when
\* the length byte is there and buf holds that many bytes after it
Delimited(buf) ==
    IF buf # <<>> /\ Head(buf) <= Len(buf) - 1
    THEN Some(SubSeq(buf, 2, 1 + Head(buf)))
    ELSE None

\* buf after the length-delimited value at its head
AfterDelimited(buf) == SubSeq(buf, 2 + Head(buf), Len(buf))

\* prost::encoding::skip_field for an unknown field: Some(rest of buf) or None
\* for a value that is cut short
skip_field(wire_type, buf) ==
    CASE wire_type = 0 -> IF buf = <<>> THEN None ELSE Some(Tail(buf))
      [] wire_type = 2 -> IF IsSome(Delimited(buf)) THEN Some(AfterDelimited(buf)) ELSE None

\* FileDescriptorProto::merge over the bytes of one file: name is field 1 and
\* package field 2, both strings; Some(file) or None for a decode error
RECURSIVE FileDescriptorProto_merge(_, _)
FileDescriptorProto_merge(file, buf) ==
    IF buf = <<>> THEN Some(file)
    ELSE IF ~ValidKey(Head(buf)) THEN None
    ELSE CASE Tag(Head(buf)) \in {1, 2} ->
              IF WireType(Head(buf)) # 2 \/ ~IsSome(Delimited(Tail(buf))) THEN None
              ELSE FileDescriptorProto_merge(
                       IF Tag(Head(buf)) = 1
                       THEN [file EXCEPT !.name = Delimited(Tail(buf))]
                       ELSE [file EXCEPT !.package = Delimited(Tail(buf))],
                       AfterDelimited(Tail(buf)))

\* FileDescriptorSet::decode(bytes): field 1 is the repeated file, any other
\* field is skipped; Some([file |-> files]) or None for a DecodeError
RECURSIVE FileDescriptorSet_merge(_, _)
FileDescriptorSet_merge(files, buf) ==
    IF buf = <<>> THEN Some([file |-> files])
    ELSE IF ~ValidKey(Head(buf)) THEN None
    ELSE IF Tag(Head(buf)) = 1
    THEN IF WireType(Head(buf)) # 2 \/ ~IsSome(Delimited(Tail(buf))) THEN None
         ELSE LET file == FileDescriptorProto_merge(
                              FileDescriptorProto(None, None, <<>>, <<>>, <<>>),
                              Delimited(Tail(buf))[1])
              IN IF ~IsSome(file) THEN None
                 ELSE FileDescriptorSet_merge(files \o file, AfterDelimited(Tail(buf)))
    ELSE LET rest == skip_field(WireType(Head(buf)), Tail(buf))
         IN IF ~IsSome(rest) THEN None ELSE FileDescriptorSet_merge(files, rest[1])

FileDescriptorSet_decode(buf) == FileDescriptorSet_merge(<<>>, buf)

\* Result<FileDescriptorSet>
Ok(value) == [ok |-> Some(value), err |-> None]

Err(error) == [ok |-> None, err |-> Some(error)]

\* decoder that decodes before it looks at the length of the input
decoder_decode_first(input) ==
    LET decode == FileDescriptorSet_decode(input)
    IN IF ~IsSome(decode) THEN Err("InvalidProtobuf")
       ELSE IF decode[1].file = <<>> THEN Err("NoProtoFiles")
       ELSE IF input = <<>> THEN Err("EmptyInput")
       ELSE Ok(decode[1])

decoder(input) ==
    IF input = <<>> THEN Err("EmptyInput")
    ELSE LET decode == FileDescriptorSet_decode(input)
         IN IF ~IsSome(decode) THEN Err("InvalidProtobuf")
            ELSE IF decode[1].file = <<>> THEN Err("NoProtoFiles")
            ELSE Ok(decode[1])

DecodeInit ==
    /\ corpus = <<>>
    /\ AnalyzerInit
    /\ DiffIdle
    /\ StepIdle
    /\ bytes \in ByteInputs
    /\ decoded = None

\* decoder(&bytes)
Decode ==
    /\ decoded = None
    /\ decoded' = Some(decoder(bytes))
    /\ UNCHANGED <<analyzerVars, diffVars, stepVars, bytes>>

DecodeNext == Decode

DecodeSpec == DecodeInit /\ [][DecodeNext]_vars

\* C25: the decoder returns a descriptor set only for a non-empty input that
\* decodes to a set of at least one file, and then that set; otherwise it
\* returns no set and one error: EmptyInput for no bytes, InvalidProtobuf for
\* bytes that do not decode, NoProtoFiles for a decoded set without files.
DecoderResult ==
    IsSome(decoded) =>
        LET r == decoded[1]
            decode == FileDescriptorSet_decode(bytes)
        IN /\ IsSome(r.ok) <=> (bytes # <<>> /\ IsSome(decode) /\ decode[1].file # <<>>)
           /\ IsSome(r.ok) => (r.ok = decode /\ r.err = None)
           /\ ~IsSome(r.ok) =>
                 r.err = Some(IF bytes = <<>> THEN "EmptyInput"
                              ELSE IF ~IsSome(decode) THEN "InvalidProtobuf"
                              ELSE "NoProtoFiles")

\* C25 witness: bytes that decode to a set without files gave NoProtoFiles.
DecoderResultWitness ==
    /\ IsSome(decoded)
    /\ bytes # <<>>
    /\ decoded[1].err = Some("NoProtoFiles")

\* the ids of the named services and named top-level messages of the internal
\* files
InternalSourceIds(files) ==
    UNION {{generate_node_id(FilePackage(f), d.name[1]) :
              d \in {d \in Range(f.service) \cup Range(f.message_type) : IsSome(d.name)}} :
             f \in Range(InternalFiles(files))}

\* a Service or Message node of the graph has the id, and an internal file
\* declares a service or a message of that id
SourceDeclared(g, files, id) ==
    /\ \E n \in Range(g.nodes) : n.id = id /\ n.node_type \in {"Service", "Message"}
    /\ id \in InternalSourceIds(files)

\* C27: the source of every edge of the returned graph is the id of a Service
\* or Message node of the graph that an internal file declares, and no Enum or
\* External node of the graph has the id of a source.
EdgeSources ==
    FreshCall =>
        \A e \in Range(Graph.edges) :
            /\ SourceDeclared(Graph, fds, e.source)
            /\ ~\E n \in Range(Graph.nodes) :
                   n.id = e.source /\ n.node_type \in {"Enum", "External"}

\* the ids of the named top-level services, messages and enums of the files
TopLevelIds(files) ==
    UNION {{generate_node_id(FilePackage(f), d.name[1]) :
              d \in {d \in Range(f.service) \cup Range(f.message_type) \cup Range(f.enum_type) :
                       IsSome(d.name)}} :
             f \in Range(files)}

\* the ids of the nested messages and enums that no top-level definition has
NestedIds(files) ==
    {trim_start_matches_dot(T) : T \in NestedNames(files)} \ TopLevelIds(files)

\* the messages nested at any depth in the message
RECURSIVE NestedMessages(_)
NestedMessages(m) ==
    Range(m.nested_type) \cup UNION {NestedMessages(n) : n \in Range(m.nested_type)}

\* C28: after analyze no Message or Enum node has the id of a nested message
\* or enum, and no edge has the id of a nested message as source: nested
\* definitions yield no node and their fields no edge.
TopLevelOnly ==
    (IsSome(model) /\ calls = "used") =>
        /\ \A n \in Range(Graph.nodes) :
              n.node_type \in {"Message", "Enum"} => n.id \notin NestedIds(fds)
        /\ \A e \in Range(Graph.edges) : e.source \notin NestedIds(fds)

\* C28 witness: a message nested in a top-level message of an internal file
\* has a field whose type name is registered, next to a nested enum, and the
\* returned graph has nodes and edges.
TopLevelOnlyWitness ==
    /\ IsSome(model) /\ calls = "used"
    /\ \E f \in Range(InternalFiles(fds)) : \E m \in Range(f.message_type) :
          /\ IsSome(m.name)
          /\ \E n \in NestedMessages(m) :
                /\ IsSome(n.name)
                /\ n.enum_type # <<>>
                /\ \E i \in DOMAIN n.field :
                      /\ IsSome(n.field[i].type_name)
                      /\ n.field[i].type_name[1] \in DOMAIN type_to_node_id
    /\ NestedIds(fds) # {}
    /\ Graph.nodes # <<>>
    /\ Graph.edges # <<>>

----------------------------------------------------------------------------
(* Analyzer::analyze on a new Analyzer, its third pass statement by        *)
(* statement.  `model` is the local model of the call, `todo` the          *)
(* statements of the pass that are still to run.                           *)

\* a statement of the third pass
Statement(op, service, package, source_id, type_name, target_id) ==
    [op |-> op, service |-> service, package |-> package, source_id |-> source_id,
     type_name |-> type_name, target_id |-> target_id]

\* the statements of create_message_edges for a message and of the extend that
\* follows the call: one lookup per field of a named message, then the extend
MessageStatements(message, package) ==
    IF ~IsSome(message.name) THEN <<Statement("extend", None, package, <<>>, None, <<>>)>>
    ELSE [i \in DOMAIN message.field |->
             Statement("field", None, package,
                       generate_node_id(package, message.name[1]),
                       message.field[i].type_name, <<>>)]
         \o <<Statement("extend", None, package, <<>>, None, <<>>)>>

\* the statements of the third pass over one file: the services, then the
\* messages; none for an external file
FileStatements(file) ==
    LET package == unwrap_or(file.package, <<>>)
    IN IF is_external_file(unwrap_or(file.name, <<>>)) THEN <<>>
       ELSE [i \in DOMAIN file.service |->
                Statement("service", Some(file.service[i]), package, <<>>, None, <<>>)]
            \o FoldLeft(LAMBDA acc, m : acc \o MessageStatements(m, package),
                        <<>>, file.message_type)

Pass3Statements(files) == FoldLeft(LAMBDA acc, f : acc \o FileStatements(f), <<>>, files)

StepInit ==
    /\ corpus \in Corpora
    /\ AnalyzerInit
    /\ DiffIdle
    /\ StepIdle
    /\ DecodeIdle

\* analyzer.analyze(&input) on the new Analyzer, up to the end of the second pass
BeginAnalyze ==
    /\ pc = "idle"
    /\ \E input \in Inputs(corpus) :
         LET p1 == FoldLeft(Pass1File, [st |-> Self, nodes |-> <<>>, edges |-> <<>>], input)
             p2 == FoldLeft(Pass2File, p1, input)
         IN /\ type_to_node_id' = p2.st.type_to_node_id
            /\ type_to_message_def' = p2.st.type_to_message_def
            /\ external_packages' = p2.st.external_packages
            /\ fds' = input
            /\ model' = Some([nodes |-> p2.nodes, edges |-> <<>>, packages |-> <<>>])
            /\ todo' = Pass3Statements(input)
    /\ pc' = "pass3"
    /\ UNCHANGED <<corpus, calls, last_fresh, prev_model, message_edges, diffVars,
                   decodeVars>>

\* model.edges.extend(self.create_service_edges(service, package))
ServiceStatement ==
    /\ pc = "pass3" /\ todo # <<>> /\ Head(todo).op = "service"
    /\ model' = Some([Graph EXCEPT !.edges =
                         @ \o create_service_edges(Self, Head(todo).service[1],
                                                   Head(todo).package)])
    /\ todo' = Tail(todo)
    /\ UNCHANGED <<corpus, type_to_node_id, type_to_message_def, external_packages, calls,
                   fds, last_fresh, prev_model, pc, message_edges, diffVars, decodeVars>>

\* create_message_edges, one field: the lookup of the type name and, for an
\* external type, ensure_external_node; the push of the edge is the next
\* statement
FieldStatement ==
    /\ pc = "pass3" /\ todo # <<>> /\ Head(todo).op = "field"
    /\ LET type_name == Head(todo).type_name
       IN IF IsSome(type_name) /\ type_name[1] \in DOMAIN type_to_node_id
          THEN LET target_id == type_to_node_id[type_name[1]]
               IN /\ model' = Some([Graph EXCEPT !.nodes =
                                       IF is_external_type(type_name[1])
                                       THEN ensure_external_node(target_id, type_name[1], @)
                                       ELSE @])
                  /\ todo' = <<[Head(todo) EXCEPT !.op = "push", !.target_id = target_id]>>
                             \o Tail(todo)
          ELSE model' = model /\ todo' = Tail(todo)
    /\ UNCHANGED <<corpus, type_to_node_id, type_to_message_def, external_packages, calls,
                   fds, last_fresh, prev_model, pc, message_edges, diffVars, decodeVars>>

\* edges.push(Edge::new(source_id.clone(), target_id.clone()))
PushEdge ==
    /\ pc = "pass3" /\ todo # <<>> /\ Head(todo).op = "push"
    /\ message_edges' = Append(message_edges,
                               NewEdge(Head(todo).source_id, Head(todo).target_id))
    /\ todo' = Tail(todo)
    /\ UNCHANGED <<analyzerVars, pc, diffVars, decodeVars>>

\* model.edges.extend(...) with the edges create_message_edges returned
ExtendEdges ==
    /\ pc = "pass3" /\ todo # <<>> /\ Head(todo).op = "extend"
    /\ model' = Some([Graph EXCEPT !.edges = @ \o message_edges])
    /\ message_edges' = <<>>
    /\ todo' = Tail(todo)
    /\ UNCHANGED <<corpus, type_to_node_id, type_to_message_def, external_packages, calls,
                   fds, last_fresh, prev_model, pc, diffVars, decodeVars>>

\* the post-pass and the return of the model
Return ==
    /\ pc = "pass3" /\ todo = <<>>
    /\ \E packages \in Orderings(group_packages(Graph.nodes)) :
         model' = Some([nodes |-> Graph.nodes, edges |-> deduplicate_edges(Graph.edges),
                        packages |-> packages])
    /\ pc' = "done"
    /\ calls' = "used"
    /\ last_fresh' = TRUE
    /\ UNCHANGED <<corpus, type_to_node_id, type_to_message_def, external_packages, fds,
                   prev_model, todo, message_edges, diffVars, decodeVars>>

StepNext ==
    BeginAnalyze \/ ServiceStatement \/ FieldStatement \/ PushEdge \/ ExtendEdges \/ Return

StepSpec == StepInit /\ [][StepNext]_vars

\* the edges pushed so far: those of the model and those of the running
\* create_message_edges
EdgesSoFar == Range(Graph.edges) \cup Range(message_edges)

\* the edge is that of a field of a named top-level internal message whose type
\* an external file of the argument declares
FieldEdgeToExternal(e) ==
    \E ref \in FieldRefs(fds) :
        /\ ref[1] = e.source
        /\ ref[2] \in DOMAIN ExternalTypes(fds)
        /\ ExternalTypes(fds)[ref[2]] = e.target

\* C26: in every state of the third pass and after it, the target of every edge
\* pushed so far from a message field to an external type is the id of a node
\* of the node list: the External node is appended before the edge.
NodeBeforeEdge ==
    pc \in {"pass3", "done"} =>
        \A e \in EdgesSoFar : FieldEdgeToExternal(e) => e.target \in NodeIds(Graph)

====
